---- MODULE Spec2Model ----
(***************************************************************************)
(* Model of controller.c: the loader of a dudley JSON file.                *)
(*                                                                         *)
(* parse_dudley_file parses the file, validates it against a fixed schema, *)
(* resolves the "input" section into the process-wide byte buffer          *)
(* (_raw_data, _raw_data_size) and the "output" section into the           *)
(* process-wide output descriptor (_output_params).                        *)
(*                                                                         *)
(* A pointer is a non-empty tuple naming the object it points to, NULL is  *)
(* the empty tuple.  A C string is a sequence of one-character strings     *)
(* (the terminating NUL is implicit); a char* is <<s>> for the string s    *)
(* and NULL otherwise.                                                     *)
(***************************************************************************)
EXTENDS Integers, Sequences, FiniteSets, TLC

\* ------------------------------------------------------------------ bounds

\* longest "data" string of the documents of the inline-data specification
MaxLen == 3
\* number of parse_dudley_file invocations in one run of the process
MaxCalls == 2

\* ------------------------------------------------------- program constants

\* the null pointer, and the NULL string
NULL == <<>>
\* the two return codes (utils.h); the callers only test "non-zero"
SUCCESS == "SUCCESS"
FAILURE == "FAILURE"
\* enum output method (controller.h)
OUTPUT_FILEOUT == "OUTPUT_FILEOUT"
\* the content of a malloc'ed byte that was never written
Indeterminate == "indeterminate"

\* the accept set of strspn in _consume_inline_data
HexDigits ==
  { "0", "1", "2", "3", "4", "5", "6", "7", "8", "9",
    "a", "b", "c", "d", "e", "f", "A", "B", "C", "D", "E", "F" }

\* the schema document of parse_dudley_file: key -> JSON type of its value
Schema ==
  [ name |-> "string", input |-> "object", output |-> "object", events |-> "object" ]

\* ------------------------------------------------------------ C library

\* the value of one hexadecimal digit, as sscanf's %x conversion reads it
HexDigitValue(c) ==
  CASE c = "0" -> 0  [] c = "1" -> 1  [] c = "2" -> 2  [] c = "3" -> 3
    [] c = "4" -> 4  [] c = "5" -> 5  [] c = "6" -> 6  [] c = "7" -> 7
    [] c = "8" -> 8  [] c = "9" -> 9
    [] c \in {"a", "A"} -> 10  [] c \in {"b", "B"} -> 11
    [] c \in {"c", "C"} -> 12  [] c \in {"d", "D"} -> 13
    [] c \in {"e", "E"} -> 14  [] c \in {"f", "F"} -> 15

\* strspn(s, accept): the length of the longest prefix of s made of accept
RECURSIVE strspn(_, _)
strspn(s, accept) ==
  IF s = <<>> \/ Head(s) \notin accept THEN 0
  ELSE 1 + strspn(Tail(s), accept)

strlen(s) == Len(s)

\* sscanf_2hhx with the two digits taken low nibble first
sscanf_2hhx_Reversed(s, pos) ==
  IF pos > Len(s) \/ s[pos] \notin HexDigits THEN <<>>
  ELSE IF pos + 1 > Len(s) \/ s[pos + 1] \notin HexDigits
       THEN << HexDigitValue(s[pos]) % 256 >>
       ELSE << (16 * HexDigitValue(s[pos + 1]) + HexDigitValue(s[pos])) % 256 >>

\* sscanf(pos, "%2hhx", &b) on the characters of s from index pos (1-based):
\* at most two hexadecimal digits are converted and the value is stored in an
\* unsigned char.  The result is <<>> when no digit could be converted (the
\* byte is then not written), <<value>> otherwise.
sscanf_2hhx(s, pos) ==
  IF pos > Len(s) \/ s[pos] \notin HexDigits THEN <<>>
  ELSE IF pos + 1 > Len(s) \/ s[pos + 1] \notin HexDigits
       THEN << HexDigitValue(s[pos]) % 256 >>
       ELSE << (16 * HexDigitValue(s[pos]) + HexDigitValue(s[pos + 1])) % 256 >>

\* ------------------------------------------------------------ JSON library

\* a member of a JSON object: absent, or a value of some JSON type
JAbsent == [ type |-> "absent", v |-> <<>> ]
JNumber == [ type |-> "number", v |-> <<>> ]
JString(s) == [ type |-> "string", v |-> <<s>> ]

\* json_object_get_string(object, name): the string, NULL (<<>>) when the
\* member is absent or is not a string
json_object_get_string(object, name) ==
  IF name \in DOMAIN object /\ object[name].type = "string"
  THEN object[name].v ELSE <<>>

\* json_validate(schema, value) for the schema of parse_dudley_file: every key
\* of the schema is a member of the root object with a value of the schema's type
json_validate(schema, d) ==
  /\ d.rootType = "object"
  /\ \A k \in DOMAIN schema : d.types[k] = schema[k]

\* the nodes of a parsed document tree that the program holds pointers to
NodeNames == { "root", "input", "output" }
TreeNodes(t) == { <<t, n>> : n \in NodeNames }

\* json_value_free(value): the value and everything below it is released
json_value_free(node) ==
  IF node[2] = "root" THEN TreeNodes(node[1]) ELSE { node }

\* json_object_get_value(json_object(root), name) for the two sections: the
\* pointer to the member node, NULL when the root has no such member
json_object_get_value(root, d, name) ==
  IF d.types[name] = "absent" THEN NULL ELSE << root[1], name >>

\* ---------------------------------------------------------- the resolvers

\* The loop of _consume_inline_data from index i on: one sscanf per byte, pos
\* advancing by two characters, _raw_data_size incremented once per byte.
\* st = [buf, size]: the bytes written so far and the value of _raw_data_size.
RECURSIVE ConvertLoop(_, _, _, _)
ConvertLoop(hexstr, i, data_size, st) ==
  IF i >= data_size THEN st
  ELSE LET b == sscanf_2hhx(hexstr, 2 * i + 1) IN
       ConvertLoop(hexstr, i + 1, data_size,
                   [ buf |-> Append(st.buf, IF b = <<>> THEN Indeterminate ELSE b[1]),
                     size |-> st.size + 1 ])

\* _consume_inline_data with only the characters that are converted validated
_consume_inline_data_PairsOnly(input, g, p) ==
  LET hexstr == json_object_get_string(input, "data")
      failed == [ ret |-> FAILURE, raw_data |-> g.raw_data,
                  raw_data_size |-> g.raw_data_size, bufs |-> g.bufs ]
  IN IF hexstr = NULL THEN failed
     ELSE LET data_size == strlen(hexstr[1]) \div 2 IN
          IF strspn(hexstr[1], HexDigits) < 2 * data_size THEN failed
          ELSE IF p = NULL
          THEN [ failed EXCEPT !.raw_data = NULL ]
          ELSE LET st == ConvertLoop(hexstr[1], 0, data_size,
                                     [ buf |-> <<>>, size |-> g.raw_data_size ])
               IN [ ret |-> SUCCESS, raw_data |-> p, raw_data_size |-> st.size,
                    bufs |-> (p :> st.buf) @@ g.bufs ]

\* _consume_inline_data(json_input_value), on the globals g = [_raw_data,
\* _raw_data_size, bufs], with p the pointer malloc returns (NULL: no memory,
\* or a zero-size request on a platform that answers NULL).  bufs maps every
\* allocated buffer to its bytes.
_consume_inline_data(input, g, p) ==
  LET hexstr == json_object_get_string(input, "data")
      failed == [ ret |-> FAILURE, raw_data |-> g.raw_data,
                  raw_data_size |-> g.raw_data_size, bufs |-> g.bufs ]
  IN IF hexstr = NULL THEN failed
     ELSE IF strspn(hexstr[1], HexDigits) < strlen(hexstr[1]) THEN failed
     ELSE LET data_size == strlen(hexstr[1]) \div 2 IN
          IF p = NULL
          THEN [ failed EXCEPT !.raw_data = NULL ]
          ELSE LET st == ConvertLoop(hexstr[1], 0, data_size,
                                     [ buf |-> <<>>, size |-> g.raw_data_size ])
               IN [ ret |-> SUCCESS, raw_data |-> p, raw_data_size |-> st.size,
                    bufs |-> (p :> st.buf) @@ g.bufs ]

\* _set_input_params with every method string dispatched to inline-data
_set_input_params_AnyMethod(root, d, g, p) ==
  LET json_input_value ==
        IF root = NULL THEN NULL ELSE json_object_get_value(root, d, "input")
      method ==
        IF json_input_value = NULL THEN NULL
        ELSE json_object_get_string(d.input, "method")
      dispatched == method # NULL
      r == IF dispatched THEN _consume_inline_data(d.input, g, p)
           ELSE [ ret |-> FAILURE, raw_data |-> g.raw_data,
                  raw_data_size |-> g.raw_data_size, bufs |-> g.bufs ]
  IN [ ret |-> r.ret, raw_data |-> r.raw_data, raw_data_size |-> r.raw_data_size,
       bufs |-> r.bufs,
       released |-> IF json_input_value # NULL
                    THEN json_value_free(json_input_value) ELSE {},
       read |-> (IF json_input_value # NULL THEN { "method" } ELSE {})
                \cup (IF dispatched THEN { "data" } ELSE {}) ]

\* _set_input_params(), on the document d whose tree _json_root_value = root
\* points to.  The result adds the nodes released at the label done and the
\* members of "input" that were read.
_set_input_params(root, d, g, p) ==
  LET json_input_value ==
        IF root = NULL THEN NULL ELSE json_object_get_value(root, d, "input")
      method ==
        IF json_input_value = NULL THEN NULL
        ELSE json_object_get_string(d.input, "method")
      dispatched == method # NULL /\ method[1] = "inline-data"
      r == IF dispatched THEN _consume_inline_data(d.input, g, p)
           ELSE [ ret |-> FAILURE, raw_data |-> g.raw_data,
                  raw_data_size |-> g.raw_data_size, bufs |-> g.bufs ]
  IN [ ret |-> r.ret, raw_data |-> r.raw_data, raw_data_size |-> r.raw_data_size,
       bufs |-> r.bufs,
       released |-> IF json_input_value # NULL
                    THEN json_value_free(json_input_value) ELSE {},
       read |-> (IF json_input_value # NULL THEN { "method" } ELSE {})
                \cup (IF dispatched THEN { "data" } ELSE {}) ]

\* _set_file_out_params with the two strings stored in each other's field
_set_file_out_params_Swapped(json_output_value, output, o, p1, p2) ==
  LET directory_path == json_object_get_string(output, "directory-path")
      name_suffix == json_object_get_string(output, "name-suffix")
      failed == [ ret |-> FAILURE, output_params |-> o.output_params,
                  structs |-> o.structs ]
  IN IF directory_path = NULL THEN failed
     ELSE IF name_suffix = NULL THEN failed
     ELSE IF p1 = NULL THEN failed
     ELSE IF p2 = NULL
          THEN [ failed EXCEPT !.output_params = NULL ]
          ELSE [ ret |-> SUCCESS, output_params |-> p2,
                 structs |-> (p2 :> [ method |-> OUTPUT_FILEOUT,
                                      json_output_value |-> json_output_value,
                                      params |-> p1 ])
                             @@ (p1 :> [ directory_path |-> name_suffix[1],
                                         name_suffix |-> directory_path[1] ])
                             @@ o.structs ]

\* _set_file_out_params(json_output_value), with p1 and p2 the pointers the
\* two malloc calls return.  o = [output_params, structs]: the global and the
\* allocated structs.
_set_file_out_params(json_output_value, output, o, p1, p2) ==
  LET directory_path == json_object_get_string(output, "directory-path")
      name_suffix == json_object_get_string(output, "name-suffix")
      failed == [ ret |-> FAILURE, output_params |-> o.output_params,
                  structs |-> o.structs ]
  IN IF directory_path = NULL THEN failed
     ELSE IF name_suffix = NULL THEN failed
     ELSE IF p1 = NULL THEN failed
     ELSE IF p2 = NULL
          THEN [ failed EXCEPT !.output_params = NULL ]
          ELSE [ ret |-> SUCCESS, output_params |-> p2,
                 structs |-> (p2 :> [ method |-> OUTPUT_FILEOUT,
                                      json_output_value |-> json_output_value,
                                      params |-> p1 ])
                             @@ (p1 :> [ directory_path |-> directory_path[1],
                                         name_suffix |-> name_suffix[1] ])
                             @@ o.structs ]

\* _set_output_params()
_set_output_params(root, d, o, p1, p2) ==
  LET json_output_value ==
        IF root = NULL THEN NULL ELSE json_object_get_value(root, d, "output")
      method ==
        IF json_output_value = NULL THEN NULL
        ELSE json_object_get_string(d.output, "method")
      failed == [ ret |-> FAILURE, output_params |-> o.output_params,
                  structs |-> o.structs ]
  IN IF method = NULL THEN failed
     ELSE IF method[1] = "file-out"
          THEN _set_file_out_params(json_output_value, d.output, o, p1, p2)
          ELSE failed

\* ------------------------------------------------------------- documents

\* the characters "data" strings are drawn from: a digit, a lower-case and an
\* upper-case hexadecimal letter, and a character outside the alphabet
DataChars == { "1", "a", "F", "g" }

\* every string over DataChars of length at most n
Strings(n) == UNION { [ 1..k -> DataChars ] : k \in 0..n }

\* the "data" strings of the documents of the whole-load specification
DataSamples ==
  { <<>>, <<"a">>, <<"a", "b">>, <<"a", "b", "c">>, <<"d", "E", "a", "D">>, <<"z", "z">> }

InputObject(m, x) == [ method |-> m, data |-> x ]

OutputObject(m, dp, ns) ==
  ("method" :> m) @@ ("directory-path" :> dp) @@ ("name-suffix" :> ns)

InputObjects ==
  { InputObject(JString("inline-data"), x) :
      x \in { JAbsent, JNumber } \cup { JString(h) : h \in DataSamples } }
  \cup { InputObject(m, x) :
           m \in { JAbsent, JNumber, JString("file-in") },
           x \in { JAbsent, JString(<<"a", "b">>) } }

OutputObjects ==
  { OutputObject(JString("file-out"), dp, ns) :
      dp \in { JAbsent, JNumber, JString("/tmp/out") },
      ns \in { JAbsent, JNumber, JString(".bin") } }
  \cup { OutputObject(m, JString("/tmp/out"), JString(".bin")) :
           m \in { JAbsent, JNumber, JString("network-out") } }

GoodInput == InputObject(JString("inline-data"), JString(<<"a", "b">>))
GoodOutput == OutputObject(JString("file-out"), JString("/tmp/out"), JString(".bin"))

\* a document: whether the file is well-formed JSON, the JSON type of its root
\* and of the four top-level members, and the two sections
Document(wf, rt, ty, in, out) ==
  [ wellFormed |-> wf, rootType |-> rt, types |-> ty, input |-> in, output |-> out ]

\* the top-level shapes json_validate rejects: a member missing or of another type
BadShapes ==
  { [ Schema EXCEPT ![k] = t ] :
      k \in DOMAIN Schema, t \in { "absent", "number" } }

\* a file that is not well-formed JSON
Malformed == Document(FALSE, "object", Schema, GoodInput, GoodOutput)

Docs ==
  { Malformed,
    Document(TRUE, "array", [ k \in DOMAIN Schema |-> "absent" ], GoodInput, GoodOutput) }
  \cup { Document(TRUE, "object", ty, GoodInput, GoodOutput) : ty \in BadShapes }
  \cup { Document(TRUE, "object", Schema, in, out) :
           in \in InputObjects, out \in OutputObjects }

\* the documents of the inline-data specification: every string as "data"
InlineDocs ==
  { Document(TRUE, "object", Schema, InputObject(JString("inline-data"), JString(h)),
             GoodOutput) : h \in Strings(MaxLen) }

\* ----------------------------------------------------------------- state

VARIABLES
  _json_root_value,  \* static: root of the document tree, or NULL
  _raw_data,         \* static: the data buffer, or NULL
  _raw_data_size,    \* static: the recorded size of the data buffer
  _output_params,    \* static: the output descriptor, or NULL
  bufs,              \* heap: allocated byte buffer -> its bytes
  structs,           \* heap: allocated struct -> its fields
  freed,             \* the document nodes json_value_free has released
  pc,                \* where parse_dudley_file stands
  doc,               \* the document at filepath
  ret,               \* the local ret of parse_dudley_file
  callNo,            \* the number of invocations started
  result,            \* the value the last invocation returned
  pre,               \* the statics and the result of the previous invocation when
                     \* the current one was entered, and whether both invocations
                     \* are given the same document
  steps,             \* the steps the current invocation has entered, in order:
                     \* the step, whether it succeeded, what malloc had to offer
  read               \* the members of "input" the current invocation has read

vars ==
  << _json_root_value, _raw_data, _raw_data_size, _output_params, bufs, structs,
     freed, pc, doc, ret, callNo, result, pre, steps, read >>

\* what malloc can return to invocation n for object kind: NULL or a fresh pointer
Malloc(kind, n) == { NULL, << kind, n >> }

Statics ==
  [ raw_data |-> _raw_data, raw_data_size |-> _raw_data_size,
    output_params |-> _output_params, result |-> result ]

Step(name, ok, mem) == [ name |-> name, ok |-> ok, mem |-> mem ]

Init ==
  /\ _json_root_value = NULL
  /\ _raw_data = NULL
  /\ _raw_data_size = 0
  /\ _output_params = NULL
  /\ bufs = <<>>
  /\ structs = <<>>
  /\ freed = {}
  /\ pc = "idle"
  /\ doc = Malformed
  /\ ret = FAILURE
  /\ callNo = 0
  /\ result = "none"
  /\ pre = [ statics |-> Statics, same |-> FALSE ]
  /\ steps = <<>>
  /\ read = {}

\* ---------------------------------------------------- parse_dudley_file

\* Call with ret initialised to SUCCESS
Call_RetSuccess ==
  /\ pc = "idle"
  /\ callNo < MaxCalls
  /\ \E d \in Docs :
       /\ doc' = d
       /\ pre' = [ statics |-> Statics, same |-> (callNo > 0 /\ d = doc) ]
  /\ callNo' = callNo + 1
  /\ ret' = SUCCESS
  /\ steps' = <<>>
  /\ read' = {}
  /\ pc' = "parse"
  /\ UNCHANGED << _json_root_value, _raw_data, _raw_data_size, _output_params,
                  bufs, structs, freed, result >>

\* entry: ret = FAILURE, the schema is parsed (the schema text is a well-formed
\* literal; its tree is private to the invocation and released at done)
Call ==
  /\ pc = "idle"
  /\ callNo < MaxCalls
  /\ \E d \in Docs :
       /\ doc' = d
       /\ pre' = [ statics |-> Statics, same |-> (callNo > 0 /\ d = doc) ]
  /\ callNo' = callNo + 1
  /\ ret' = FAILURE
  /\ steps' = <<>>
  /\ read' = {}
  /\ pc' = "parse"
  /\ UNCHANGED << _json_root_value, _raw_data, _raw_data_size, _output_params,
                  bufs, structs, freed, result >>

\* _json_root_value = json_parse_file(filepath)
ParseFile ==
  /\ pc = "parse"
  /\ _json_root_value' = IF doc.wellFormed THEN << callNo, "root" >> ELSE NULL
  /\ steps' = Append(steps, Step("parse", _json_root_value' # NULL, <<>>))
  /\ pc' = IF _json_root_value' = NULL THEN "done" ELSE "validate"
  /\ UNCHANGED << _raw_data, _raw_data_size, _output_params, bufs, structs, freed,
                  doc, ret, callNo, result, pre, read >>

\* json_validate(schema, _json_root_value); the tree is released on failure
Validate ==
  /\ pc = "validate"
  /\ steps' = Append(steps, Step("validate", json_validate(Schema, doc), <<>>))
  /\ IF json_validate(Schema, doc)
     THEN /\ pc' = "input"
          /\ freed' = freed
     ELSE /\ pc' = "done"
          /\ freed' = freed \cup json_value_free(_json_root_value)
  /\ UNCHANGED << _json_root_value, _raw_data, _raw_data_size, _output_params,
                  bufs, structs, doc, ret, callNo, result, pre, read >>

\* SetInputParams with the result of _set_input_params ignored
SetInputParams_Unchecked ==
  /\ pc = "input"
  /\ \E p \in Malloc("buf", callNo) :
       LET r == _set_input_params(_json_root_value, doc,
                   [ raw_data |-> _raw_data, raw_data_size |-> _raw_data_size,
                     bufs |-> bufs ], p)
       IN /\ _raw_data' = r.raw_data
          /\ _raw_data_size' = r.raw_data_size
          /\ bufs' = r.bufs
          /\ freed' = freed \cup r.released
          /\ read' = read \cup r.read
          /\ steps' = Append(steps, Step("input", r.ret = SUCCESS, << p >>))
          /\ pc' = "output"
  /\ UNCHANGED << _json_root_value, _output_params, structs, doc, ret, callNo,
                  result, pre >>

\* if (_set_input_params()) goto done
SetInputParams ==
  /\ pc = "input"
  /\ \E p \in Malloc("buf", callNo) :
       LET r == _set_input_params(_json_root_value, doc,
                   [ raw_data |-> _raw_data, raw_data_size |-> _raw_data_size,
                     bufs |-> bufs ], p)
       IN /\ _raw_data' = r.raw_data
          /\ _raw_data_size' = r.raw_data_size
          /\ bufs' = r.bufs
          /\ freed' = freed \cup r.released
          /\ read' = read \cup r.read
          /\ steps' = Append(steps, Step("input", r.ret = SUCCESS, << p >>))
          /\ pc' = IF r.ret # SUCCESS THEN "done" ELSE "output"
  /\ UNCHANGED << _json_root_value, _output_params, structs, doc, ret, callNo,
                  result, pre >>

\* if (_set_output_params()) goto done; ret = SUCCESS
SetOutputParams ==
  /\ pc = "output"
  /\ \E p1 \in Malloc("fout", callNo), p2 \in Malloc("out", callNo) :
       LET r == _set_output_params(_json_root_value, doc,
                   [ output_params |-> _output_params, structs |-> structs ], p1, p2)
       IN /\ _output_params' = r.output_params
          /\ structs' = r.structs
          /\ steps' = Append(steps, Step("output", r.ret = SUCCESS, << p1, p2 >>))
          /\ ret' = IF r.ret # SUCCESS THEN ret ELSE SUCCESS
  /\ pc' = "done"
  /\ UNCHANGED << _json_root_value, _raw_data, _raw_data_size, bufs, freed, doc,
                  callNo, result, pre, read >>

\* done: json_value_free(schema); return ret
Return ==
  /\ pc = "done"
  /\ result' = ret
  /\ pc' = "idle"
  /\ UNCHANGED << _json_root_value, _raw_data, _raw_data_size, _output_params,
                  bufs, structs, freed, doc, ret, callNo, pre, steps, read >>

Next == Call \/ ParseFile \/ Validate \/ SetInputParams \/ SetOutputParams \/ Return

Spec == Init /\ [][Next]_vars

\* ------------------------------------------------ inline-data resolution
\* Input resolution of every "data" string: the invocation stands before
\* _set_input_params, in a fresh process or after one successful load.

GoodDocument == Document(TRUE, "object", Schema, GoodInput, GoodOutput)

\* the state one successful load of GoodDocument leaves behind
LoadedInput ==
  _set_input_params(<< 1, "root" >>, GoodDocument,
                    [ raw_data |-> NULL, raw_data_size |-> 0, bufs |-> <<>> ],
                    << "buf", 1 >>)
LoadedOutput ==
  _set_output_params(<< 1, "root" >>, GoodDocument,
                     [ output_params |-> NULL, structs |-> <<>> ],
                     << "fout", 1 >>, << "out", 1 >>)

InitInline ==
  /\ doc \in InlineDocs
  /\ pc = "input"
  /\ ret = FAILURE
  /\ read = {}
  /\ steps = << Step("parse", TRUE, <<>>), Step("validate", TRUE, <<>>) >>
  /\ \/ /\ callNo = 1
        /\ result = "none"
        /\ _raw_data = NULL
        /\ _raw_data_size = 0
        /\ _output_params = NULL
        /\ bufs = <<>>
        /\ structs = <<>>
        /\ freed = {}
        /\ pre = [ statics |-> Statics, same |-> FALSE ]
     \/ /\ callNo = 2
        /\ result = SUCCESS
        /\ _raw_data = LoadedInput.raw_data
        /\ _raw_data_size = LoadedInput.raw_data_size
        /\ _output_params = LoadedOutput.output_params
        /\ bufs = LoadedInput.bufs
        /\ structs = LoadedOutput.structs
        /\ freed = LoadedInput.released
        /\ pre = [ statics |-> Statics, same |-> (doc = GoodDocument) ]
  /\ _json_root_value = << callNo, "root" >>

NextInline == SetInputParams \/ SetOutputParams \/ Return

SpecInline == InitInline /\ [][NextInline]_vars

\* ================================================================ claims

\* the order of the steps of one invocation
Pipeline == << "parse", "validate", "input", "output" >>

\* parse_dudley_file has returned at least once and is not running
Returned == pc = "idle" /\ callNo > 0

AllStepsSucceeded ==
  Len(steps) = Len(Pipeline) /\ \A i \in 1..Len(steps) : steps[i].ok

\* the hexadecimal alphabet of the specification, digit by value
LowerHex ==
  << "0", "1", "2", "3", "4", "5", "6", "7", "8", "9", "a", "b", "c", "d", "e", "f" >>
UpperHex ==
  << "0", "1", "2", "3", "4", "5", "6", "7", "8", "9", "A", "B", "C", "D", "E", "F" >>
IsHexChar(c) == \E v \in 1..16 : c = LowerHex[v] \/ c = UpperHex[v]
IsHexString(s) == \A i \in 1..Len(s) : IsHexChar(s[i])
hexval(c) == (CHOOSE v \in 1..16 : c = LowerHex[v] \/ c = UpperHex[v]) - 1

\* the bytes the specification asks of the decoding of s
ExpectedBytes(s) ==
  [ i \in 1..(Len(s) \div 2) |-> 16 * hexval(s[2 * i - 1]) + hexval(s[2 * i]) ]

\* the document asks for the inline-data method with a string as data
InlineCase ==
  /\ doc.input.method = JString("inline-data")
  /\ doc.input.data.type = "string"
InlineData == doc.input.data.v[1]

\* the current invocation has been through input resolution
InputResolutionDone == Len(steps) >= 3
\* the current invocation has been through output resolution
OutputResolutionDone == Len(steps) >= 4

\* the buffer the current invocation allocated is still allocated
BufferOfThisCall == << "buf", callNo >> \in DOMAIN bufs

\* what the specification asks of a document for a load to succeed
Resolvable(d) ==
  /\ d.wellFormed
  /\ d.rootType = "object"
  /\ d.types = Schema
  /\ d.input.method = JString("inline-data")
  /\ d.input.data.type = "string"
  /\ IsHexString(d.input.data.v[1])
  /\ d.output["method"] = JString("file-out")
  /\ d.output["directory-path"].type = "string"
  /\ d.output["name-suffix"].type = "string"

\* C1: the steps of one invocation are entered in the order parse, schema
\* validation, input resolution, output resolution; a step is entered only if
\* every earlier step succeeded; once a step has failed no later step is
\* entered and the invocation ends failed (ret stays FAILURE and FAILURE is
\* what it returns).
C1_PipelineOrder ==
  /\ Len(steps) <= Len(Pipeline)
  /\ \A i \in 1..Len(steps) : steps[i].name = Pipeline[i]
  /\ \A i \in 1..(Len(steps) - 1) : steps[i].ok
  /\ (steps # <<>> /\ ~steps[Len(steps)].ok) =>
       /\ pc \in { "done", "idle" }
       /\ ret = FAILURE
       /\ (pc = "idle" => result = FAILURE)

\* C1 witness: an invocation returned after input resolution failed, and output
\* resolution was never entered.
C1_Witness ==
  /\ Returned
  /\ result = FAILURE
  /\ Len(steps) = 3
  /\ steps[3].name = "input"
  /\ ~steps[3].ok

\* C2: parse_dudley_file returns exactly one of SUCCESS and FAILURE, and
\* SUCCESS if and only if parsing, schema validation, input resolution and
\* output resolution all succeeded; a load that returns SUCCESS was given a
\* document that satisfies every requirement of the four steps.
C2_ReturnValue ==
  Returned =>
    /\ result \in { SUCCESS, FAILURE }
    /\ (result = SUCCESS) <=> AllStepsSucceeded
    /\ (result = SUCCESS) => Resolvable(doc)

\* C2 witness: an invocation returned SUCCESS after all four steps.
C2_Witness == Returned /\ result = SUCCESS /\ Len(steps) = 4

\* C5: when input.method of a schema-valid document is no string or is a string
\* other than "inline-data", input resolution fails, no buffer is allocated,
\* _raw_data and _raw_data_size keep their values, "data" is not read, output
\* resolution is not entered and the load fails.
C5_UnsupportedInputMethod ==
  ( /\ InputResolutionDone
    /\ doc.input.method # JString("inline-data") ) =>
      /\ ~steps[3].ok
      /\ Len(steps) = 3
      /\ "data" \notin read
      /\ ~BufferOfThisCall
      /\ _raw_data = pre.statics.raw_data
      /\ _raw_data_size = pre.statics.raw_data_size
      /\ ret = FAILURE
      /\ (pc = "idle" => result = FAILURE)

\* C5 witness: a load with an unsupported input method and a data string
\* returned, after an earlier load had published a buffer.
C5_Witness ==
  /\ Returned
  /\ doc.input.method = JString("file-in")
  /\ doc.input.data.type = "string"
  /\ pre.statics.raw_data # NULL
  /\ Len(steps) = 3

\* C6: output resolution succeeds exactly when output.method is "file-out",
\* directory-path and name-suffix are strings and both allocations succeed; on
\* success _output_params points to a new descriptor of method OUTPUT_FILEOUT
\* holding the document's directory-path and name-suffix; when the method is
\* absent or another string, or one of the two fields is absent, it fails and
\* _output_params is not assigned.
C6_OutputResolution ==
  OutputResolutionDone =>
    LET o == doc.output
        wanted == /\ o["method"] = JString("file-out")
                  /\ o["directory-path"].type = "string"
                  /\ o["name-suffix"].type = "string"
        allocated == \A i \in 1..Len(steps[4].mem) : steps[4].mem[i] # NULL
    IN /\ steps[4].ok <=> (wanted /\ allocated)
       /\ steps[4].ok =>
            /\ _output_params # NULL
            /\ _output_params # pre.statics.output_params
            /\ structs[_output_params].method = OUTPUT_FILEOUT
            /\ structs[structs[_output_params].params].directory_path
                 = o["directory-path"].v[1]
            /\ structs[structs[_output_params].params].name_suffix
                 = o["name-suffix"].v[1]
       /\ ~wanted => _output_params = pre.statics.output_params

\* C6 witness: output resolution succeeded and published a descriptor in a
\* process that already held one.
C6_Witness ==
  /\ OutputResolutionDone
  /\ steps[4].ok
  /\ pre.statics.output_params # NULL

C4_NonHexRejected ==
  (InlineCase /\ InputResolutionDone /\ ~IsHexString(InlineData)) =>
    /\ ~steps[3].ok
    /\ ~BufferOfThisCall
    /\ _raw_data = pre.statics.raw_data
    /\ _raw_data_size = pre.statics.raw_data_size

\* C4 witness: a string whose only foreign character is the unpaired last one
\* was rejected in a process that holds the buffer of an earlier load.
C4_Witness ==
  /\ InlineCase
  /\ InputResolutionDone
  /\ InlineData = << "1", "a", "g" >>
  /\ ~steps[3].ok
  /\ _raw_data # NULL
  /\ _raw_data = pre.statics.raw_data

\* C7: an invocation that returns FAILURE leaves _raw_data, _raw_data_size and
\* _output_params as they were when it was entered, and a buffer it built is
\* no longer allocated.
C7_FailureLeavesStatics ==
  (Returned /\ result = FAILURE) =>
    /\ _raw_data = pre.statics.raw_data
    /\ _raw_data_size = pre.statics.raw_data_size
    /\ _output_params = pre.statics.output_params
    /\ ~BufferOfThisCall

\* the contents of the output descriptor p points to
OutputContents(p) ==
  << structs[p].method, structs[structs[p].params].directory_path,
     structs[structs[p].params].name_suffix >>

\* C8: two successful loads of the same document in a row leave the same bytes,
\* the same recorded length and the same output descriptor contents.
C8_Idempotent ==
  (Returned /\ result = SUCCESS /\ pre.same /\ pre.statics.result = SUCCESS) =>
    /\ bufs[_raw_data] = bufs[pre.statics.raw_data]
    /\ _raw_data_size = pre.statics.raw_data_size
    /\ OutputContents(_output_params) = OutputContents(pre.statics.output_params)

\* C9: in every state, when _raw_data is not NULL, _raw_data_size is the number
\* of bytes of the buffer _raw_data points to.
C9_SizeMatchesBuffer ==
  (_raw_data # NULL) => _raw_data_size = Len(bufs[_raw_data])

\* C10: after parse_dudley_file returns, _json_root_value is NULL or the root of
\* a tree of which no node has been released, and after SUCCESS the output
\* descriptor refers to the live "output" node of the document just loaded.
C10_NoDanglingNode ==
  Returned =>
    /\ \/ _json_root_value = NULL
       \/ TreeNodes(_json_root_value[1]) \cap freed = {}
    /\ (result = SUCCESS) =>
         /\ structs[_output_params].json_output_value = << callNo, "output" >>
         /\ << callNo, "output" >> \notin freed

====
